---- MODULE Spec2Model ----
(***************************************************************************)
(* Model of src/main.py: the Moshi -> kotlinx.serialization migration      *)
(* tool (camel_to_snake, _process_lines, process_file, main).              *)
(*                                                                         *)
(* Text is a sequence of tokens.  A token is a record [k, name]: k is the  *)
(* literal text of the token (or its shape, for the tokens that carry a    *)
(* name) and name is the quoted name / identifier it carries, a sequence   *)
(* of one-character strings.  " " is a run of blanks, "\n" a line          *)
(* terminator.  A line is the sequence of tokens of one element of         *)
(* str.splitlines(keepends=True).                                          *)
(***************************************************************************)
EXTENDS Integers, Sequences, FiniteSets, TLC

\* ------------------------------------------------------------------ bounds

\* Longest file, in lines, that Init writes to the disk.
MaxLines == 3

\* Most files that main finds in one run.
MaxFiles == 2

\* Longest field name, in characters, that Init draws from NameChars.
MaxName == 4

\* ------------------------------------------------------------------ tokens

T(k) == [k |-> k, name |-> <<>>]
TN(k, name) == [k |-> k, name |-> name]

WS == T(" ")
NL == T("\n")
JsonClassTok == T("@JsonClass(generateAdapter = true)")
JsonBareTok == T("@Json")
JsonNamed(name) == TN("@Json(name = \"..\")", name)
ValDecl(name) == TN("val ..: String", name)
ImportJsonTok == T("import com.squareup.moshi.Json")
ImportJsonClassTok == T("import com.squareup.moshi.JsonClass")
ImportSerializableTok == T("import kotlinx.serialization.Serializable")
ImportSerialNameTok == T("import kotlinx.serialization.SerialName")
ImportOtherTok == T("import java.util.Date")
PackageTok == T("package com.example")
SerializableTok == T("@Serializable")
SerialNameTok(name) == TN("@SerialName(\"..\")", name)
ClassTok == T("data class User(")

\* Tokens whose text starts with "import ".
ImportKinds ==
    {ImportJsonTok.k, ImportJsonClassTok.k, ImportSerializableTok.k,
     ImportSerialNameTok.k, ImportOtherTok.k}

\* ------------------------------------------------------- str helpers

\* \s of the regular expressions, and the characters str.strip() removes.
IsSpace(tok) == tok.k \in {" ", "\n"}

RECURSIVE LStrip(_)
LStrip(l) == IF l # <<>> /\ IsSpace(Head(l)) THEN LStrip(Tail(l)) ELSE l

RECURSIVE RStrip(_)
RStrip(l) ==
    IF l # <<>> /\ IsSpace(l[Len(l)]) THEN RStrip(SubSeq(l, 1, Len(l) - 1)) ELSE l

\* str.strip()
Strip(l) == RStrip(LStrip(l))

\* The group ^(\s*) of the annotation patterns: the leading blanks.
Indent(l) == SubSeq(l, 1, Len(l) - Len(LStrip(l)))

\* "".join(lines)
RECURSIVE Join(_)
Join(lines) == IF lines = <<>> THEN <<>> ELSE Head(lines) \o Join(Tail(lines))

\* Index of the first terminator of text, 0 if none.
FirstNL(text) ==
    IF \E p \in 1..Len(text) : text[p] = NL
    THEN CHOOSE p \in 1..Len(text) : text[p] = NL /\ \A q \in 1..(p - 1) : text[q] # NL
    ELSE 0

\* text.splitlines(keepends=True)
RECURSIVE SplitLines(_)
SplitLines(text) ==
    IF text = <<>> THEN <<>>
    ELSE LET p == FirstNL(text) IN
         IF p = 0 THEN <<text>>
         ELSE <<SubSeq(text, 1, p)>> \o SplitLines(SubSeq(text, p + 1, Len(text)))

\* ------------------------------------------------- regular expressions

\* RE_IMPORT_JSON.match(line)
MatchImportJson(l) == Strip(l) = <<ImportJsonTok>>

\* RE_IMPORT_JSONCLASS.match(line)
MatchImportJsonClass(l) == Strip(l) = <<ImportJsonClassTok>>

\* RE_ANNOTATION_JSONCLASS.match(line)
MatchJsonClass(l) == Strip(l) = <<JsonClassTok>>

\* RE_ANNOTATION_JSON.match(line): @Json alone, or @Json(...) with any
\* arguments, the name = "..." form included.
MatchJson(l) ==
    /\ Len(Strip(l)) = 1
    /\ Strip(l)[1].k \in {JsonBareTok.k, JsonNamed(<<>>).k}

\* RE_ANNOTATION_JSON_WITH_NAME.match(line): the quoted name is [^'"]+, so
\* an empty name does not match.
MatchJsonWithName(l) ==
    /\ Len(Strip(l)) = 1
    /\ Strip(l)[1].k = JsonNamed(<<>>).k
    /\ Strip(l)[1].name # <<>>

\* RE_VAL_DECL.match(line): anchored at the start only.
MatchValDecl(l) == LStrip(l) # <<>> /\ LStrip(l)[1].k = ValDecl(<<>>).k

\* group(2) of the two patterns that carry a name
Group2(l) == LStrip(l)[1].name

\* ------------------------------------------------------ camel_to_snake

UpperChars ==
    <<"A", "B", "C", "D", "E", "F", "G", "H", "I", "J", "K", "L", "M",
      "N", "O", "P", "Q", "R", "S", "T", "U", "V", "W", "X", "Y", "Z">>
LowerChars ==
    <<"a", "b", "c", "d", "e", "f", "g", "h", "i", "j", "k", "l", "m",
      "n", "o", "p", "q", "r", "s", "t", "u", "v", "w", "x", "y", "z">>
DigitChars == {"0", "1", "2", "3", "4", "5", "6", "7", "8", "9"}

IsUpper(c) == \E k \in 1..26 : UpperChars[k] = c
IsLower(c) == \E k \in 1..26 : LowerChars[k] = c
IsDigit(c) == c \in DigitChars

\* str.lower() on one character
ToLower(c) ==
    IF IsUpper(c) THEN LowerChars[CHOOSE k \in 1..26 : UpperChars[k] = c] ELSE c

\* re.sub(r"([a-z0-9])([A-Z])", r"\1_\2", s), scanning from position p.
RECURSIVE SubLowerUpper(_, _)
SubLowerUpper(s, p) ==
    IF p > Len(s) THEN <<>>
    ELSE IF p + 1 <= Len(s) /\ (IsLower(s[p]) \/ IsDigit(s[p])) /\ IsUpper(s[p + 1])
         THEN <<s[p], "_", s[p + 1]>> \o SubLowerUpper(s, p + 2)
         ELSE <<s[p]>> \o SubLowerUpper(s, p + 1)

\* Variant: the run before the pair has two uppercase letters or more.
AcronymRuns_TwoOrMore(s, p) ==
    {m \in 2..(Len(s) - p - 1) :
        /\ \A q \in p..(p + m) : IsUpper(s[q])
        /\ IsLower(s[p + m + 1])}

\* Lengths m of a prefix [A-Z]+ at p that ([A-Z][a-z]) can follow.
AcronymRuns(s, p) ==
    {m \in 1..(Len(s) - p - 1) :
        /\ \A q \in p..(p + m) : IsUpper(s[q])
        /\ IsLower(s[p + m + 1])}

\* re.sub(r"([A-Z]+)([A-Z][a-z])", r"\1_\2", s), scanning from position p;
\* [A-Z]+ is greedy, so the longest run that leaves a match is taken.
RECURSIVE SubAcronym(_, _)
SubAcronym(s, p) ==
    IF p > Len(s) THEN <<>>
    ELSE IF AcronymRuns(s, p) # {}
         THEN LET m == CHOOSE x \in AcronymRuns(s, p) :
                           \A y \in AcronymRuns(s, p) : y <= x
              IN SubSeq(s, p, p + m - 1) \o <<"_">> \o SubSeq(s, p + m, p + m + 1)
                     \o SubAcronym(s, p + m + 2)
         ELSE <<s[p]>> \o SubAcronym(s, p + 1)

camel_to_snake(name) ==
    LET s1 == SubLowerUpper(name, 1)
        s2 == SubAcronym(s1, 1)
    IN [p \in 1..Len(s2) |-> ToLower(s2[p])]

\* ------------------------------------------------------ _process_lines

\* The three error messages, as the values their f-strings are built from.
ErrMissing ==
    [msg |-> "Encountered @Json(name=...) without following field declaration",
     got |-> <<>>, field_name |-> <<>>, expected_snake |-> <<>>, json_name |-> <<>>]
ErrNotVal(next_line) ==
    [msg |-> "Expected a Kotlin 'val' declaration after @Json(name=...), got: ",
     got |-> Strip(next_line), field_name |-> <<>>, expected_snake |-> <<>>,
     json_name |-> <<>>]
ErrMismatch(field_name, expected_snake, json_name) ==
    [msg |-> "Field '..' serializes to '..', but @Json name is '..'",
     got |-> <<>>, field_name |-> field_name, expected_snake |-> expected_snake,
     json_name |-> json_name]

\* f"{indent}@Serializable\n"
SerializableLine(indent) == indent \o <<SerializableTok, NL>>

\* f"{indent}@SerialName(\"{json_name}\")\n"
SerialNameLine(indent, json_name) == indent \o <<SerialNameTok(json_name), NL>>

\* The locals of one call, before the first pass.  package_index and
\* last_import_idx are 0-based as in the source; -1 stands for None.  The
\* key import_serialname_added is absent from the dict until it is set.
InitFrame(lines, fix_names, fix_all_names) ==
    [at |-> "pass1",
     lines |-> lines, fix_names |-> fix_names, fix_all_names |-> fix_all_names,
     changed |-> FALSE,
     annotations_json_removed |-> 0,
     annotations_jsonclass_replaced |-> 0,
     imports_moshi_removed |-> 0,
     import_serializable_added |-> FALSE,
     import_serialname_added |-> FALSE,
     errors |-> <<>>,
     transformed |-> <<>>,
     inserted_serializable |-> FALSE,
     inserted_serialname |-> FALSE,
     i |-> 0,
     n |-> Len(lines),
     has_serializable_import |-> FALSE,
     has_serialname_import |-> FALSE,
     result_lines |-> <<>>,
     package_index |-> -1,
     needs_serializable_import |-> FALSE,
     needs_serialname_import |-> FALSE,
     last_import_idx |-> -1]

\* lines[i] and lines[i + 1] of the first pass (0-based i).
CurLine(fr) == fr.lines[fr.i + 1]
NextLine(fr) == fr.lines[fr.i + 2]

\* Variant: the bare-marker pattern is tried before the named-marker pattern.
Branch_BareFirst(fr) ==
    IF fr.at # "pass1" THEN fr.at
    ELSE IF ~(fr.i < fr.n) THEN "pass1_end"
    ELSE IF MatchJsonClass(CurLine(fr)) THEN "jsonclass"
    ELSE IF MatchJson(CurLine(fr)) THEN "bare"
    ELSE IF MatchJsonWithName(CurLine(fr)) THEN
        IF fr.fix_all_names THEN "fix_all"
        ELSE IF fr.i + 1 >= fr.n THEN "missing"
        ELSE IF ~MatchValDecl(NextLine(fr)) THEN "not_val"
        ELSE IF camel_to_snake(Group2(NextLine(fr))) # Group2(CurLine(fr))
                /\ fr.fix_names THEN "fix_name"
        ELSE "drop"
    ELSE "plain"

\* The branch the first pass takes at line i: the if-chain of the loop body.
Branch(fr) ==
    IF fr.at # "pass1" THEN fr.at
    ELSE IF ~(fr.i < fr.n) THEN "pass1_end"
    ELSE IF MatchJsonClass(CurLine(fr)) THEN "jsonclass"
    ELSE IF MatchJsonWithName(CurLine(fr)) THEN
        IF fr.fix_all_names THEN "fix_all"
        ELSE IF fr.i + 1 >= fr.n THEN "missing"
        ELSE IF ~MatchValDecl(NextLine(fr)) THEN "not_val"
        ELSE IF camel_to_snake(Group2(NextLine(fr))) # Group2(CurLine(fr))
                /\ fr.fix_names THEN "fix_name"
        ELSE "drop"
    ELSE IF MatchJson(CurLine(fr)) THEN "bare"
    ELSE "plain"

\* Variant that loses the indentation of the marker it replaces.
ReplaceJsonClass_NoIndent(fr) ==
    LET new == SerializableLine(<<>>) IN
    [fr EXCEPT !.transformed = Append(@, new),
               !.annotations_jsonclass_replaced = @ + 1,
               !.inserted_serializable = TRUE,
               !.changed = @ \/ (CurLine(fr) # new),
               !.i = @ + 1]

\* @JsonClass(...) -> @Serializable
ReplaceJsonClass(fr) ==
    LET new == SerializableLine(Indent(CurLine(fr))) IN
    [fr EXCEPT !.transformed = Append(@, new),
               !.annotations_jsonclass_replaced = @ + 1,
               !.inserted_serializable = TRUE,
               !.changed = @ \/ (CurLine(fr) # new),
               !.i = @ + 1]

\* Variant that looks for a following line and records its absence.
RewriteAllNames_ChecksNext(fr) ==
    [fr EXCEPT !.transformed =
                   Append(@, SerialNameLine(Indent(CurLine(fr)), Group2(CurLine(fr)))),
               !.errors = IF fr.i + 1 >= fr.n THEN Append(@, ErrMissing) ELSE @,
               !.inserted_serialname = TRUE,
               !.annotations_json_removed = @ + 1,
               !.changed = TRUE,
               !.i = @ + 1]

\* fix_all_names: @Json(name = "x") -> @SerialName("x"), no lookahead
RewriteAllNames(fr) ==
    [fr EXCEPT !.transformed =
                   Append(@, SerialNameLine(Indent(CurLine(fr)), Group2(CurLine(fr)))),
               !.inserted_serialname = TRUE,
               !.annotations_json_removed = @ + 1,
               !.changed = TRUE,
               !.i = @ + 1]

\* @Json(name = ...) on the last line
MissingDeclaration(fr) ==
    [fr EXCEPT !.errors = Append(@, ErrMissing),
               !.i = @ + 1]

\* Variant that also consumes the line it looked at.
NotValDeclaration_SkipsNext(fr) ==
    [fr EXCEPT !.errors = Append(@, ErrNotVal(NextLine(fr))),
               !.i = @ + 2]

\* Variant: the marker above a line that is no declaration is kept.
NotValDeclaration_KeepsLine(fr) ==
    [fr EXCEPT !.errors = Append(@, ErrNotVal(NextLine(fr))),
               !.transformed = Append(@, CurLine(fr)),
               !.i = @ + 1]

\* @Json(name = ...) followed by a line that is no val declaration
NotValDeclaration(fr) ==
    [fr EXCEPT !.errors = Append(@, ErrNotVal(NextLine(fr))),
               !.i = @ + 1]

\* Variant that pins the derived name instead of the declared one.
RewriteMismatch_DerivedName(fr) ==
    [fr EXCEPT !.transformed =
                   Append(@, SerialNameLine(Indent(CurLine(fr)),
                                            camel_to_snake(Group2(NextLine(fr))))),
               !.inserted_serialname = TRUE,
               !.changed = TRUE,
               !.i = @ + 1]

\* fix_names and the names differ: @Json(name = "x") -> @SerialName("x")
RewriteMismatch(fr) ==
    [fr EXCEPT !.transformed =
                   Append(@, SerialNameLine(Indent(CurLine(fr)), Group2(CurLine(fr)))),
               !.inserted_serialname = TRUE,
               !.changed = TRUE,
               !.i = @ + 1]

\* Variant that keeps the @Json line in the output.
DropNamed_KeepsLine(fr) ==
    LET json_name == Group2(CurLine(fr))
        field_name == Group2(NextLine(fr))
        expected_snake == camel_to_snake(field_name)
    IN [fr EXCEPT !.errors =
                      IF expected_snake # json_name
                      THEN Append(@, ErrMismatch(field_name, expected_snake, json_name))
                      ELSE @,
                  !.transformed = Append(@, CurLine(fr)),
                  !.annotations_json_removed = @ + 1,
                  !.changed = TRUE,
                  !.i = @ + 1]

\* Variant that records no error when the names differ.
DropNamed_NoError(fr) ==
    [fr EXCEPT !.annotations_json_removed = @ + 1,
               !.changed = TRUE,
               !.i = @ + 1]

\* The names match, or they differ without fix_names (an error is recorded):
\* the @Json line is dropped.
DropNamed(fr) ==
    LET json_name == Group2(CurLine(fr))
        field_name == Group2(NextLine(fr))
        expected_snake == camel_to_snake(field_name)
    IN [fr EXCEPT !.errors =
                      IF expected_snake # json_name
                      THEN Append(@, ErrMismatch(field_name, expected_snake, json_name))
                      ELSE @,
                  !.annotations_json_removed = @ + 1,
                  !.changed = TRUE,
                  !.i = @ + 1]

\* Variant: dropping a bare marker asks for the rename import.
DropBare_NeedsImport(fr) ==
    [fr EXCEPT !.annotations_json_removed = @ + 1,
               !.changed = TRUE,
               !.inserted_serialname = TRUE,
               !.i = @ + 1]

\* Any other full-line @Json annotation is dropped.
DropBare(fr) ==
    [fr EXCEPT !.annotations_json_removed = @ + 1,
               !.changed = TRUE,
               !.i = @ + 1]

\* Variant that copies the line without its blanks and terminator.
CopyLine_Stripped(fr) ==
    [fr EXCEPT !.transformed = Append(@, Strip(CurLine(fr))),
               !.i = @ + 1]

\* Variant: copying a line sets changed.
CopyLine_SetsChanged(fr) ==
    [fr EXCEPT !.transformed = Append(@, CurLine(fr)),
               !.changed = TRUE,
               !.i = @ + 1]

\* Every other line is copied.
CopyLine(fr) ==
    [fr EXCEPT !.transformed = Append(@, CurLine(fr)),
               !.i = @ + 1]

\* any(l.strip() == import_text for l in lines)
HasImportLine(lines, tok) == \E j \in 1..Len(lines) : Strip(lines[j]) = <<tok>>

\* Variants of the two flags that never see an import that is present.
HasSerializableImport_Blind(transformed) == FALSE
HasSerialNameImport_Blind(transformed) == FALSE

\* has_serializable_import and has_serialname_import, over transformed
HasSerializableImport(transformed) == HasImportLine(transformed, ImportSerializableTok)
HasSerialNameImport(transformed) == HasImportLine(transformed, ImportSerialNameTok)

\* line.startswith("package "): no leading blanks allowed
StartsWithPackage(l) == l # <<>> /\ l[1].k = PackageTok.k

\* line.strip().startswith("import ")
StartsWithImport(l) == Strip(l) # <<>> /\ Strip(l)[1].k \in ImportKinds

\* The 0-based index of the first package line of transformed, -1 for None.
PackageIndex(transformed) ==
    LET hits == {j \in 1..Len(transformed) : StartsWithPackage(transformed[j])} IN
    IF hits = {} THEN -1
    ELSE (CHOOSE j \in hits : \A h \in hits : j <= h) - 1

\* Variant: only the field-marker import is recognised.
IsMoshiImport_JsonOnly(l) == MatchImportJson(l)

\* A line the import filter removes.
IsMoshiImport(l) == MatchImportJson(l) \/ MatchImportJsonClass(l)
IsNotMoshiImport(l) == ~IsMoshiImport(l)

\* result_lines after the filter loop
FilterMoshi(transformed) == SelectSeq(transformed, IsNotMoshiImport)

\* Variant: a marker already in the file is not seen.
HasSerializableMarker_Blind(lines) == FALSE

\* any(l.strip().startswith("@Serializable") for l in result_lines)
HasSerializableMarker(lines) ==
    \E j \in 1..Len(lines) :
        Strip(lines[j]) # <<>> /\ Strip(lines[j])[1].k = SerializableTok.k

\* any(l.strip().startswith("@SerialName(") for l in result_lines)
HasSerialNameMarker(lines) ==
    \E j \in 1..Len(lines) :
        Strip(lines[j]) # <<>> /\ Strip(lines[j])[1].k = SerialNameTok(<<>>).k

\* Variant: the anchor is the first import line, not the last.
LastImportIdx_First(result_lines) ==
    LET hits == {j \in 1..Len(result_lines) : StartsWithImport(result_lines[j])} IN
    IF hits = {} THEN -1
    ELSE (CHOOSE j \in hits : \A h \in hits : j <= h) - 1

\* The 0-based index of the last import line of result_lines, -1 for None.
LastImportIdx(result_lines) ==
    LET hits == {j \in 1..Len(result_lines) : StartsWithImport(result_lines[j])} IN
    IF hits = {} THEN -1
    ELSE (CHOOSE j \in hits : \A h \in hits : h <= j) - 1

\* The second pass up to the insertions: the two has_ flags, package_index,
\* the filter, the two needs_ flags and the anchor.
ScanImports(fr) ==
    LET result_lines == FilterMoshi(fr.transformed)
        removed == Len(fr.transformed) - Len(result_lines)
    IN [fr EXCEPT !.at = "insert_serializable",
                  !.has_serializable_import = HasSerializableImport(fr.transformed),
                  !.has_serialname_import = HasSerialNameImport(fr.transformed),
                  !.package_index = PackageIndex(fr.transformed),
                  !.result_lines = result_lines,
                  !.imports_moshi_removed = @ + removed,
                  !.changed = @ \/ (removed > 0),
                  !.needs_serializable_import =
                      fr.inserted_serializable \/ HasSerializableMarker(result_lines),
                  !.needs_serialname_import =
                      fr.inserted_serialname \/ HasSerialNameMarker(result_lines),
                  !.last_import_idx = LastImportIdx(result_lines)]

\* list.insert(index, x) for index >= 0: an index past the end appends.
ListInsert(list, index, x) ==
    LET at == IF index > Len(list) THEN Len(list) ELSE index IN
    SubSeq(list, 1, at) \o <<x>> \o SubSeq(list, at + 1, Len(list))

\* Variant: an insertion after the last import leaves the anchor where it was.
insert_import_KeepsAnchor(fr, import_line) ==
    IF fr.last_import_idx # -1 THEN
        [fr EXCEPT !.result_lines = ListInsert(@, fr.last_import_idx + 1, import_line)]
    ELSE IF fr.package_index # -1 THEN
        LET insert_at0 == fr.package_index + 1
            insert_at ==
                IF insert_at0 < Len(fr.result_lines)
                   /\ Strip(fr.result_lines[insert_at0 + 1]) = <<>>
                THEN insert_at0 + 1 ELSE insert_at0
        IN [fr EXCEPT !.result_lines = ListInsert(@, insert_at, import_line)]
    ELSE
        [fr EXCEPT !.result_lines = ListInsert(@, 0, import_line)]

\* The closure insert_import: result_lines and last_import_idx are updated.
insert_import(fr, import_line) ==
    IF fr.last_import_idx # -1 THEN
        [fr EXCEPT !.result_lines = ListInsert(@, fr.last_import_idx + 1, import_line),
                   !.last_import_idx = @ + 1]
    ELSE IF fr.package_index # -1 THEN
        LET insert_at0 == fr.package_index + 1
            insert_at ==
                IF insert_at0 < Len(fr.result_lines)
                   /\ Strip(fr.result_lines[insert_at0 + 1]) = <<>>
                THEN insert_at0 + 1 ELSE insert_at0
        IN [fr EXCEPT !.result_lines = ListInsert(@, insert_at, import_line),
                      !.last_import_idx = insert_at]
    ELSE
        [fr EXCEPT !.result_lines = ListInsert(@, 0, import_line),
                   !.last_import_idx = 0]

\* if needs_serializable_import and not has_serializable_import: ...
AddSerializableImport(fr) ==
    IF fr.needs_serializable_import /\ ~fr.has_serializable_import
    THEN [insert_import(fr, <<ImportSerializableTok, NL>>)
             EXCEPT !.import_serializable_added = TRUE,
                    !.changed = TRUE,
                    !.at = "insert_serialname"]
    ELSE [fr EXCEPT !.at = "insert_serialname"]

\* if needs_serialname_import and not has_serialname_import: ...
AddSerialNameImport(fr) ==
    IF fr.needs_serialname_import /\ ~fr.has_serialname_import
    THEN [insert_import(fr, <<ImportSerialNameTok, NL>>)
             EXCEPT !.import_serialname_added = TRUE,
                    !.changed = TRUE,
                    !.at = "return"]
    ELSE [fr EXCEPT !.at = "return"]

\* One step of the call from the position fr.at.
StepLines(fr) ==
    LET b == Branch(fr) IN
    CASE b = "jsonclass" -> ReplaceJsonClass(fr)
      [] b = "fix_all" -> RewriteAllNames(fr)
      [] b = "missing" -> MissingDeclaration(fr)
      [] b = "not_val" -> NotValDeclaration(fr)
      [] b = "fix_name" -> RewriteMismatch(fr)
      [] b = "drop" -> DropNamed(fr)
      [] b = "bare" -> DropBare(fr)
      [] b = "plain" -> CopyLine(fr)
      [] b = "pass1_end" -> ScanImports(fr)
      [] b = "insert_serializable" -> AddSerializableImport(fr)
      [] b = "insert_serialname" -> AddSerialNameImport(fr)
      [] OTHER -> fr

\* The call run to its return statement.
RECURSIVE RunLines(_)
RunLines(fr) == IF fr.at = "return" THEN fr ELSE RunLines(StepLines(fr))

\* _process_lines(lines, fix_names, fix_all_names), as the frame at return:
\* result_lines, changed and the stats, errors.
_process_lines(lines, fix_names, fix_all_names) ==
    RunLines(InitFrame(lines, fix_names, fix_all_names))

\* ------------------------------------------------- process_file and main

VARIABLES
    disk,           \* the contents of the files main found, in rglob order
    write,          \* not args.dry_run
    fix_names,      \* args.fix_names
    fix_all_names,  \* args.fix_all_names
    pc,             \* "main" (loop head), "process_lines" (inside the call), "exit"
    file_idx,       \* position of main's loop in files, from 1
    text,           \* process_file: the text read
    orig_lines,     \* process_file: text.splitlines(keepends=True)
    fr,             \* the frame of the call of _process_lines
    any_errors,     \* main: any_errors
    exit_status,    \* the status the process exits with, -1 while it runs
    writes,         \* the calls of path.write_text so far: the files written
    results,        \* what the calls of process_file returned, in order of return
    parked          \* worker pool: the calls of process_file that are suspended

vars ==
    <<disk, write, fix_names, fix_all_names, pc, file_idx, text, orig_lines, fr,
      any_errors, exit_status, writes, results, parked>>

\* Variants of the write condition: one that forgets the dry-run flag, one
\* that forgets the errors.
ShouldWrite_IgnoresDryRun(errors, changed, wr) == errors = <<>> /\ changed
ShouldWrite_IgnoresErrors(errors, changed, wr) == changed /\ wr

\* if (not errors) and meta["changed"] and write
ShouldWrite(errors, changed, wr) == errors = <<>> /\ changed /\ wr

\* process_file up to the call of _process_lines, from main's loop
EnterProcessFile ==
    /\ pc = "main"
    /\ file_idx <= Len(disk)
    /\ text' = disk[file_idx]
    /\ orig_lines' = SplitLines(text')
    /\ fr' = InitFrame(orig_lines', fix_names, fix_all_names)
    /\ pc' = "process_lines"
    /\ UNCHANGED <<disk, write, fix_names, fix_all_names, file_idx, any_errors,
                   exit_status, writes, results, parked>>

\* One step of _process_lines: on the branch b the frame becomes next.
LinesStep(b, next) ==
    /\ pc = "process_lines"
    /\ Branch(fr) = b
    /\ fr' = next
    /\ UNCHANGED <<disk, write, fix_names, fix_all_names, pc, file_idx, text,
                   orig_lines, any_errors, exit_status, writes, results, parked>>

JsonClassStep == LinesStep("jsonclass", ReplaceJsonClass(fr))
FixAllNamesStep == LinesStep("fix_all", RewriteAllNames(fr))
MissingDeclarationStep == LinesStep("missing", MissingDeclaration(fr))
NotValDeclarationStep == LinesStep("not_val", NotValDeclaration(fr))
FixNameStep == LinesStep("fix_name", RewriteMismatch(fr))
DropNamedStep == LinesStep("drop", DropNamed(fr))
DropBareStep == LinesStep("bare", DropBare(fr))
CopyLineStep == LinesStep("plain", CopyLine(fr))
ScanImportsStep == LinesStep("pass1_end", ScanImports(fr))
AddSerializableImportStep == LinesStep("insert_serializable", AddSerializableImport(fr))
AddSerialNameImportStep == LinesStep("insert_serialname", AddSerialNameImport(fr))

\* Variant: only the file at hand decides any_errors.
AnyErrorsAfter_LastOnly(any, errors) == errors # <<>>

\* if errors: any_errors = True
AnyErrorsAfter(any, errors) == any \/ errors # <<>>

\* The tuple process_file returns for the frame f of its call: the path, the
\* meta dictionary and the errors. text and new_lines are the locals of the
\* call at its return, kept for the properties.
ResultOf(path, t, f) ==
    [path |-> path,
     text |-> t,
     new_lines |-> f.result_lines,
     meta |-> [changed |-> f.changed,
               annotations_json_removed |-> f.annotations_json_removed,
               annotations_jsonclass_replaced |-> f.annotations_jsonclass_replaced,
               imports_moshi_removed |-> f.imports_moshi_removed,
               import_serializable_added |-> f.import_serializable_added,
               import_serialname_added |-> f.import_serialname_added],
     errors |-> f.errors]

\* The rest of process_file after _process_lines returns, and the body of
\* main's loop after the call.
ReturnFromProcessFile ==
    /\ pc = "process_lines"
    /\ fr.at = "return"
    /\ IF ShouldWrite(fr.errors, fr.changed, write)
       THEN /\ disk' = [disk EXCEPT ![file_idx] = Join(fr.result_lines)]
            /\ writes' = Append(writes, file_idx)
       ELSE UNCHANGED <<disk, writes>>
    /\ results' = Append(results, ResultOf(file_idx, text, fr))
    /\ any_errors' = AnyErrorsAfter(any_errors, fr.errors)
    /\ pc' = "main"
    /\ UNCHANGED <<write, fix_names, fix_all_names, text, orig_lines, fr, exit_status,
                   parked>>

\* The return of process_file in main's loop, which goes on to the next file.
LeaveProcessFile ==
    /\ ReturnFromProcessFile
    /\ file_idx' = file_idx + 1

\* After the loop: raise SystemExit(1) if any_errors.
MainExit ==
    /\ pc = "main"
    /\ file_idx > Len(disk)
    /\ exit_status' = (IF any_errors THEN 1 ELSE 0)
    /\ pc' = "exit"
    /\ UNCHANGED <<disk, write, fix_names, fix_all_names, file_idx, text, orig_lines,
                   fr, any_errors, writes, results, parked>>

Next ==
    \/ EnterProcessFile
    \/ JsonClassStep
    \/ FixAllNamesStep
    \/ MissingDeclarationStep
    \/ NotValDeclarationStep
    \/ FixNameStep
    \/ DropNamedStep
    \/ DropBareStep
    \/ CopyLineStep
    \/ ScanImportsStep
    \/ AddSerializableImportStep
    \/ AddSerialNameImportStep
    \/ LeaveProcessFile
    \/ MainExit

\* ------------------------------------------------------------ worker pool
\* The batch driver with a pool of workers, one per file: a worker runs the
\* call of process_file for its file from its first statement to its return.
\* The workers take turns; the variables text, orig_lines and fr hold the
\* locals of the worker that runs, parked those of the workers that wait.

\* The files whose call has returned, and those whose call has begun.
Finished == {results[k].path : k \in 1..Len(results)}
Begun == Finished \cup DOMAIN parked \cup (IF pc = "process_lines" THEN {file_idx} ELSE {})

\* Variant: the errors of the call that ran before are still in the list.
WorkerStart_KeepsErrors(f) ==
    /\ pc = "main"
    /\ f \in (1..Len(disk)) \ Begun
    /\ file_idx' = f
    /\ text' = disk[f]
    /\ orig_lines' = SplitLines(text')
    /\ fr' = [InitFrame(orig_lines', fix_names, fix_all_names) EXCEPT !.errors = fr.errors]
    /\ pc' = "process_lines"
    /\ UNCHANGED <<disk, write, fix_names, fix_all_names, any_errors, exit_status,
                   writes, results, parked>>

\* A worker begins the call of process_file for the file f.
WorkerStart(f) ==
    /\ pc = "main"
    /\ f \in (1..Len(disk)) \ Begun
    /\ file_idx' = f
    /\ text' = disk[f]
    /\ orig_lines' = SplitLines(text')
    /\ fr' = InitFrame(orig_lines', fix_names, fix_all_names)
    /\ pc' = "process_lines"
    /\ UNCHANGED <<disk, write, fix_names, fix_all_names, any_errors, exit_status,
                   writes, results, parked>>

\* The worker that runs is suspended between two steps of its call, for
\* another worker to begin or to run again.
Preempt ==
    /\ pc = "process_lines"
    /\ parked # <<>> \/ Begun # 1..Len(disk)
    /\ parked' = (file_idx :> [text |-> text, orig_lines |-> orig_lines, fr |-> fr]) @@ parked
    /\ text' = <<>>
    /\ orig_lines' = <<>>
    /\ fr' = InitFrame(<<>>, fix_names, fix_all_names)
    /\ pc' = "main"
    /\ UNCHANGED <<disk, write, fix_names, fix_all_names, file_idx, any_errors,
                   exit_status, writes, results>>

\* The suspended worker of the file f runs again.
Resume(f) ==
    /\ pc = "main"
    /\ f \in DOMAIN parked
    /\ file_idx' = f
    /\ text' = parked[f].text
    /\ orig_lines' = parked[f].orig_lines
    /\ fr' = parked[f].fr
    /\ parked' = [g \in (DOMAIN parked) \ {f} |-> parked[g]]
    /\ pc' = "process_lines"
    /\ UNCHANGED <<disk, write, fix_names, fix_all_names, any_errors, exit_status,
                   writes, results>>

\* The call of the worker that runs returns.
WorkerFinish ==
    /\ ReturnFromProcessFile
    /\ UNCHANGED file_idx

\* All calls have returned: raise SystemExit(1) if any_errors.
PoolExit ==
    /\ pc = "main"
    /\ Finished = 1..Len(disk)
    /\ exit_status' = (IF any_errors THEN 1 ELSE 0)
    /\ pc' = "exit"
    /\ UNCHANGED <<disk, write, fix_names, fix_all_names, file_idx, text, orig_lines,
                   fr, any_errors, writes, results, parked>>

NextWorkers ==
    \/ \E f \in 1..Len(disk) : WorkerStart(f)
    \/ JsonClassStep
    \/ FixAllNamesStep
    \/ MissingDeclarationStep
    \/ NotValDeclarationStep
    \/ FixNameStep
    \/ DropNamedStep
    \/ DropBareStep
    \/ CopyLineStep
    \/ ScanImportsStep
    \/ AddSerializableImportStep
    \/ AddSerialNameImportStep
    \/ Preempt
    \/ \E f \in 1..Len(disk) : Resume(f)
    \/ WorkerFinish
    \/ PoolExit

\* ------------------------------------------------------------- inputs

userName == <<"u", "s", "e", "r", "N", "a", "m", "e">>
user_name == <<"u", "s", "e", "r", "_", "n", "a", "m", "e">>
uname == <<"u", "n", "a", "m", "e">>

\* The lines the files of Spec are made of.
Catalogue ==
    {<<WS, JsonClassTok, NL>>,
     <<WS, JsonNamed(user_name), NL>>,
     <<WS, JsonNamed(uname), NL>>,
     <<WS, JsonBareTok, NL>>,
     <<WS, ValDecl(userName), NL>>,
     <<ImportJsonTok, NL>>,
     <<ImportSerializableTok, NL>>,
     <<ImportSerialNameTok, NL>>}

\* All files of at most MaxLines lines of a catalogue.
LineSeqs(cat) == UNION {[1..len -> cat] : len \in 0..MaxLines}

\* A text with its last terminator cut off, if it ends with one.
CutFinalNL(t) ==
    IF t # <<>> /\ t[Len(t)] = NL THEN SubSeq(t, 1, Len(t) - 1) ELSE t

\* The texts of a catalogue: the last line may lack its terminator.
Texts(cat) == {Join(ls) : ls \in LineSeqs(cat)} \cup {CutFinalNL(Join(ls)) : ls \in LineSeqs(cat)}

\* main after argument parsing and file discovery, for the files `files`.
InitWith(files) ==
    /\ disk \in files
    /\ write \in BOOLEAN
    /\ fix_names \in BOOLEAN
    /\ fix_all_names \in BOOLEAN
    /\ ~(fix_names /\ fix_all_names)
    /\ pc = "main"
    /\ file_idx = 1
    /\ text = <<>>
    /\ orig_lines = <<>>
    /\ fr = InitFrame(<<>>, fix_names, fix_all_names)
    /\ any_errors = FALSE
    /\ exit_status = -1
    /\ writes = <<>>
    /\ results = <<>>
    /\ parked = <<>>

\* One file, made of the lines of Catalogue.
Init == InitWith({<<t>> : t \in Texts(Catalogue)})

Spec == Init /\ [][Next]_vars

\* The lines for the import anchors: the markers, a declaration, the two
\* Moshi imports, another import, a package line and a blank line.
AnchorCatalogue ==
    {<<WS, JsonClassTok, NL>>,
     <<WS, JsonNamed(user_name), NL>>,
     <<WS, JsonNamed(uname), NL>>,
     <<WS, JsonBareTok, NL>>,
     <<WS, ValDecl(userName), NL>>,
     <<ImportJsonTok, NL>>,
     <<ImportJsonClassTok, NL>>,
     <<ImportOtherTok, NL>>,
     <<PackageTok, NL>>,
     <<NL>>}

\* One file, made of the lines of AnchorCatalogue.
InitAnchors == InitWith({<<Join(ls)>> : ls \in LineSeqs(AnchorCatalogue)})

SpecAnchors == InitAnchors /\ [][Next]_vars

\* The lines for the import decisions: the markers, a declaration, the two
\* new markers already in place, and the two new imports already in place.
NeedsCatalogue ==
    {<<WS, JsonClassTok, NL>>,
     <<WS, JsonNamed(user_name), NL>>,
     <<WS, JsonNamed(uname), NL>>,
     <<WS, JsonBareTok, NL>>,
     <<WS, ValDecl(userName), NL>>,
     <<WS, SerializableTok, NL>>,
     <<WS, SerialNameTok(uname), NL>>,
     <<ImportSerializableTok, NL>>,
     <<ImportSerialNameTok, NL>>}

\* One file, made of the lines of NeedsCatalogue.
InitNeeds == InitWith({<<Join(ls)>> : ls \in LineSeqs(NeedsCatalogue)})

SpecNeeds == InitNeeds /\ [][Next]_vars

\* The files of a batch: a class with a field whose name mismatches, a
\* marker as the last line, a marker above a bare marker, a file with
\* nothing but a Moshi import to remove, and a file with nothing to do.
BatchFiles ==
    {Join(<<<<WS, JsonClassTok, NL>>, <<WS, JsonNamed(uname), NL>>, <<WS, ValDecl(userName), NL>>>>),
     Join(<<<<WS, JsonNamed(user_name), NL>>, <<WS, ValDecl(userName), NL>>>>),
     Join(<<<<WS, JsonNamed(uname), NL>>>>),
     Join(<<<<WS, JsonNamed(user_name), NL>>, <<WS, JsonBareTok, NL>>>>),
     Join(<<<<ImportJsonTok, NL>>, <<WS, ValDecl(userName), NL>>>>),
     Join(<<<<WS, ValDecl(userName), NL>>>>)}

\* The batches: 1 to MaxFiles files, each with a text of `files`.
Batches(files) == UNION {[1..len -> files] : len \in 1..MaxFiles}

\* A batch of the files of BatchFiles.
InitBatch == InitWith(Batches(BatchFiles))

SpecBatch == InitBatch /\ [][Next]_vars

\* The files of the workers: a field whose name mismatches, a class marker
\* above a bare marker, and two markers that lack a declaration.
WorkerFiles ==
    {Join(<<<<WS, JsonNamed(uname), NL>>, <<WS, ValDecl(userName), NL>>>>),
     Join(<<<<WS, JsonClassTok, NL>>, <<WS, JsonBareTok, NL>>>>),
     Join(<<<<WS, JsonNamed(user_name), NL>>, <<WS, JsonNamed(uname), NL>>>>)}

\* A batch of the files of WorkerFiles, for the pool.
InitWorkers == InitWith(Batches(WorkerFiles))

SpecWorkers == InitWorkers /\ [][NextWorkers]_vars

\* The field names: every identifier of at most MaxName characters of
\* NameChars, and three names of the documentation.
URLId == <<"U", "R", "L", "I", "d">>
url_id == <<"u", "r", "l", "_", "i", "d">>
id == <<"i", "d">>
NameChars == {"a", "B", "C", "1", "_"}
Identifiers ==
    {nm \in UNION {[1..len -> NameChars] : len \in 1..MaxName} : ~IsDigit(nm[1])}
        \cup {userName, URLId, id}

\* A marker whose name no derived name equals, above a declaration of nm.
NameFile(nm) == Join(<<<<WS, JsonNamed(<<"X">>), NL>>, <<WS, ValDecl(nm), NL>>>>)

\* One file: a declaration of one of the field names, or a file of BatchFiles.
InitNames == InitWith({<<t>> : t \in {NameFile(nm) : nm \in Identifiers} \cup BatchFiles})

SpecNames == InitNames /\ [][Next]_vars

\* --------------------------------------------------------- properties

\* _process_lines is at its return statement: fr holds what it returns.
AtReturn == pc = "process_lines" /\ fr.at = "return"

\* process_file has returned for the file file_idx - 1, and fr still holds
\* what _process_lines returned for it.
Returned == pc # "process_lines" /\ file_idx > 1

\* The files path.write_text was called on.
Written == {writes[j] : j \in 1..Len(writes)}

\* C1: process_file overwrites the file if and only if the errors list is
\* empty, the changed flag is true and writing is enabled; what it writes is
\* the joined output, and no other step touches the disk.
WritePolicy ==
    [][/\ (writes' # writes) <=>
              (AtReturn /\ fr.errors = <<>> /\ fr.changed = TRUE /\ write = TRUE)
       /\ (writes' # writes) =>
              /\ writes' = Append(writes, file_idx)
              /\ disk' = [disk EXCEPT ![file_idx] = Join(fr.result_lines)]
       /\ (writes' = writes) => disk' = disk]_vars

\* A file was written: no errors, changed, writing enabled.
WritePolicyWitness ==
    /\ Returned
    /\ writes = <<1>>
    /\ fr.errors = <<>> /\ fr.changed /\ write
    /\ disk[1] # text

\* C2: in every mode, a file whose processing recorded a validation error
\* has the same contents after process_file as before, writing enabled or not.
ErrorsLeaveFileUntouched ==
    /\ pc = "process_lines" => disk[file_idx] = text
    /\ (Returned /\ fr.errors # <<>>) =>
           /\ disk[file_idx - 1] = text
           /\ (file_idx - 1) \notin Written

\* A file with an error whose output differs from its contents, with writing
\* enabled and changed set, has been left alone.
ErrorsLeaveFileUntouchedWitness ==
    /\ Returned
    /\ fr.errors # <<>>
    /\ write /\ fr.changed
    /\ Join(fr.result_lines) # text

\* C3: idempotence: _process_lines run again, in the same mode, on the
\* lines it returned yields changed = false, no errors and the same lines.
Idempotent ==
    AtReturn =>
        LET again == _process_lines(fr.result_lines, fix_names, fix_all_names) IN
        /\ again.changed = FALSE
        /\ again.errors = <<>>
        /\ again.result_lines = fr.result_lines

\* A first run that changed the file, recorded an error and added an import.
IdempotentWitness ==
    /\ AtReturn
    /\ fr.changed
    /\ fr.errors # <<>>
    /\ fr.import_serializable_added
    /\ fr.result_lines # orig_lines

\* C4: changed is true whenever the output line sequence differs from the
\* input line sequence.
ChangedWheneverDiffers ==
    AtReturn => (fr.result_lines # orig_lines => fr.changed = TRUE)

\* A line the program treats as legacy: a class marker, a field marker
\* (named or bare) or a legacy import.
IsLegacy(l) == MatchJsonClass(l) \/ MatchJsonWithName(l) \/ MatchJson(l) \/ IsMoshiImport(l)
IsNotLegacy(l) == ~IsLegacy(l)

\* The two import lines the program inserts.
InsertedImports == {<<ImportSerializableTok, NL>>, <<ImportSerialNameTok, NL>>}

\* A line the program can produce: a marker in its new form, with any
\* indentation, or one of the two import lines.
IsProduced(l) ==
    \/ l \in InsertedImports
    \/ /\ Len(LStrip(l)) = 2
       /\ l[Len(l)] = NL
       /\ LStrip(l)[1].k \in {SerializableTok.k, SerialNameTok(<<>>).k}

\* out is kept with produced lines put in between: kept is in out, whole
\* and in order, and every other line of out is a produced line.
RECURSIVE Embeds(_, _)
Embeds(out, kept) ==
    IF out = <<>> THEN kept = <<>>
    ELSE \/ kept # <<>> /\ Head(out) = Head(kept) /\ Embeds(Tail(out), Tail(kept))
         \/ IsProduced(Head(out)) /\ Embeds(Tail(out), kept)

\* The number of lines of `lines` that belong to the set `set`.
CountIn(lines, set) == Cardinality({j \in 1..Len(lines) : lines[j] \in set})

\* The number of lines that, trimmed, are the import `tok`.
CountImport(lines, tok) == Cardinality({j \in 1..Len(lines) : Strip(lines[j]) = <<tok>>})

\* C5: every input line that is no legacy marker and no legacy import is in
\* the output unmodified, terminator included, in its original order; the
\* other output lines are rewritten markers and at most two inserted imports.
PlainLinesKept ==
    AtReturn =>
        LET kept == SelectSeq(orig_lines, IsNotLegacy) IN
        /\ Embeds(fr.result_lines, kept)
        /\ CountIn(fr.result_lines, InsertedImports) - CountIn(kept, InsertedImports) <= 2
        /\ Len(fr.result_lines) - Len(kept)
               <= Len(orig_lines) - Len(kept) + 2

\* A file with plain lines, legacy lines and produced lines in its output.
PlainLinesKeptWitness ==
    /\ AtReturn
    /\ \E j \in 1..Len(orig_lines) :
           IsNotLegacy(orig_lines[j]) /\ Indent(orig_lines[j]) # <<>>
    /\ \E j \in 1..Len(orig_lines) : IsLegacy(orig_lines[j])
    /\ fr.import_serializable_added
    /\ Len(fr.result_lines) > Len(SelectSeq(orig_lines, IsNotLegacy)) + 1

\* C6: an import the input already has is not inserted again, so the output
\* has as many such lines as the input; an import the input lacks is in the
\* output at most once.
NoDuplicateImport ==
    AtReturn =>
        \A tok \in {ImportSerializableTok, ImportSerialNameTok} :
            LET cin == CountImport(orig_lines, tok)
                cout == CountImport(fr.result_lines, tok)
            IN IF cin > 0 THEN cout = cin ELSE cout <= 1

\* The rename import was needed and was already there: it is there once.
NoDuplicateImportWitness ==
    /\ AtReturn
    /\ fr.needs_serialname_import
    /\ CountImport(orig_lines, ImportSerialNameTok) = 1
    /\ CountImport(fr.result_lines, ImportSerialNameTok) = 1
    /\ fr.import_serialname_added = FALSE

\* The first pass is about to handle line j (from 1) of the file.
Pass1At(j) == pc = "process_lines" /\ fr.at = "pass1" /\ fr.i + 1 = j /\ j <= fr.n

\* The class-marker lines of a file, by position.
ClassMarkers(lines) == {j \in 1..Len(lines) : MatchJsonClass(lines[j])}

\* C7: every legacy class marker is replaced in place by a serialization-
\* enable marker with the same indentation, the counter of replaced class
\* markers equals their number k, and for k >= 1 exactly one serialization-
\* enable import is added when none was present.
ClassMarkersReplaced ==
    /\ [][\A j \in ClassMarkers(fr.lines) :
              Pass1At(j) =>
                  /\ fr'.transformed =
                         Append(fr.transformed,
                                Indent(fr.lines[j]) \o <<SerializableTok, NL>>)
                  /\ fr'.annotations_jsonclass_replaced =
                         fr.annotations_jsonclass_replaced + 1
                  /\ fr'.i = fr.i + 1]_vars
    /\ [](AtReturn =>
              LET k == Cardinality(ClassMarkers(orig_lines))
                  new == {Indent(orig_lines[j]) \o <<SerializableTok, NL>> :
                              j \in ClassMarkers(orig_lines)}
              IN /\ fr.annotations_jsonclass_replaced = k
                 /\ ClassMarkers(fr.result_lines) = {}
                 /\ CountIn(fr.result_lines, new) = k + CountIn(orig_lines, new)
                 /\ (k >= 1 /\ CountImport(orig_lines, ImportSerializableTok) = 0) =>
                        /\ CountImport(fr.result_lines, ImportSerializableTok) = 1
                        /\ fr.import_serializable_added = TRUE)

\* Two indented class markers, no import before, one import after.
ClassMarkersReplacedWitness ==
    /\ AtReturn
    /\ Cardinality(ClassMarkers(orig_lines)) = 2
    /\ \A j \in ClassMarkers(orig_lines) : Indent(orig_lines[j]) # <<>>
    /\ CountImport(orig_lines, ImportSerializableTok) = 0
    /\ CountImport(fr.result_lines, ImportSerializableTok) = 1
    /\ fr.annotations_jsonclass_replaced = 2

\* Strict mode: neither fix flag is set.
Strict == ~fix_names /\ ~fix_all_names

\* Line j (from 1) is a named field marker and line j + 1 a parsable val
\* declaration.
MarkerWithDecl(lines, j) ==
    /\ j + 1 <= Len(lines)
    /\ MatchJsonWithName(lines[j])
    /\ MatchValDecl(lines[j + 1])

\* ... and the declared name is the snake-case name of the identifier.
MatchingPairs(lines) ==
    {j \in 1..Len(lines) :
        /\ MarkerWithDecl(lines, j)
        /\ Group2(lines[j]) = camel_to_snake(Group2(lines[j + 1]))}

\* ... and the declared name is not the snake-case name of the identifier.
MismatchPairs(lines) ==
    {j \in 1..Len(lines) :
        /\ MarkerWithDecl(lines, j)
        /\ Group2(lines[j]) # camel_to_snake(Group2(lines[j + 1]))}

\* The only markers of the file are named field markers whose name matches
\* the declaration below them; there is at least one.
OnlyMatchingMarkers(lines) ==
    /\ MatchingPairs(lines) # {}
    /\ \A j \in 1..Len(lines) :
           /\ ~MatchJsonClass(lines[j])
           /\ MatchJson(lines[j]) => j \in MatchingPairs(lines)
    /\ ~HasSerializableMarker(lines)
    /\ ~HasSerialNameMarker(lines)

\* C8: in strict mode a named field marker whose declared name equals the
\* derived snake-case name of the val declaration below it is removed with
\* no error, the removal counter goes up by one, the declaration line is
\* kept, and no import is inserted if the file has no other markers.
StrictMatchRemoved ==
    /\ [][\A j \in MatchingPairs(fr.lines) :
              /\ (Strict /\ Pass1At(j)) =>
                     /\ fr'.transformed = fr.transformed
                     /\ fr'.errors = fr.errors
                     /\ fr'.annotations_json_removed = fr.annotations_json_removed + 1
                     /\ fr'.i = fr.i + 1
              /\ (Strict /\ Pass1At(j + 1)) =>
                     fr'.transformed = Append(fr.transformed, fr.lines[j + 1])]_vars
    /\ []((AtReturn /\ Strict /\ OnlyMatchingMarkers(orig_lines)) =>
              /\ fr.errors = <<>>
              /\ fr.import_serializable_added = FALSE
              /\ fr.import_serialname_added = FALSE
              /\ fr.annotations_json_removed = Cardinality(MatchingPairs(orig_lines))
              /\ fr.result_lines = SelectSeq(orig_lines, IsNotLegacy))

\* @Json(name = "user_name") above val userName: String, strict mode: the
\* marker is gone, the declaration is left, nothing else.
StrictMatchRemovedWitness ==
    /\ AtReturn /\ Strict
    /\ orig_lines = <<<<WS, JsonNamed(user_name), NL>>, <<WS, ValDecl(userName), NL>>>>
    /\ fr.result_lines = <<<<WS, ValDecl(userName), NL>>>>
    /\ fr.errors = <<>>
    /\ fr.annotations_json_removed = 1

\* The name-mismatch errors of an error list, by position.
MismatchErrors(errors) ==
    {e \in 1..Len(errors) : errors[e].msg = ErrMismatch(<<>>, <<>>, <<>>).msg}

\* C9: in strict mode a named field marker above a parsable val declaration
\* whose derived snake-case name differs from the declared name records
\* exactly one name-mismatch error, the marker line is dropped from the
\* output all the same, and the file is not written even with writing enabled.
StrictMismatchBlocksWrite ==
    /\ [][\A j \in MismatchPairs(fr.lines) :
              (Strict /\ Pass1At(j)) =>
                  /\ Len(fr'.errors) = Len(fr.errors) + 1
                  /\ SubSeq(fr'.errors, 1, Len(fr.errors)) = fr.errors
                  /\ LET e == fr'.errors[Len(fr'.errors)] IN
                     /\ Len(fr'.errors) \in MismatchErrors(fr'.errors)
                     /\ e.field_name = Group2(fr.lines[j + 1])
                     /\ e.json_name = Group2(fr.lines[j])
                     /\ e.expected_snake # e.json_name
                  /\ fr'.transformed = fr.transformed]_vars
    /\ []((AtReturn /\ Strict) =>
              Cardinality(MismatchErrors(fr.errors)) =
                  Cardinality(MismatchPairs(orig_lines)))
    /\ []((Returned /\ Strict /\ MismatchPairs(fr.lines) # {}) =>
              /\ (file_idx - 1) \notin Written
              /\ disk[file_idx - 1] = text)

\* @Json(name = "uname") above val userName: String, strict mode, writing
\* enabled: one error, the marker dropped in memory, the file as it was.
StrictMismatchBlocksWriteWitness ==
    /\ Returned /\ Strict /\ write
    /\ orig_lines = <<<<WS, JsonNamed(uname), NL>>, <<WS, ValDecl(userName), NL>>>>
    /\ fr.errors = <<ErrMismatch(userName, user_name, uname)>>
    /\ fr.result_lines = <<<<WS, ValDecl(userName), NL>>>>
    /\ fr.changed
    /\ disk[1] = Join(orig_lines)
    /\ writes = <<>>

NamedMarkers(lines) == {j \in 1..Len(lines) : MatchJsonWithName(lines[j])}

\* C11: in fix-all mode every named field marker is rewritten to the rename
\* marker carrying its declared name, whatever the next line is and also on
\* the last line; the outcome does not depend on the next line, and the
\* errors list is always empty.
FixAllRewritesEveryMarker ==
    /\ [][\A j \in NamedMarkers(fr.lines) :
              (fix_all_names /\ Pass1At(j)) =>
                  /\ fr'.transformed =
                         Append(fr.transformed,
                                Indent(fr.lines[j])
                                    \o <<SerialNameTok(Group2(fr.lines[j])), NL>>)
                  /\ fr'.errors = fr.errors
                  /\ fr'.i = fr.i + 1]_vars
    /\ [](fix_all_names => fr.errors = <<>>)
    /\ []((AtReturn /\ fix_all_names) =>
              /\ NamedMarkers(fr.result_lines) = {}
              /\ fr.annotations_json_removed >= Cardinality(NamedMarkers(orig_lines)))

\* Fix-all mode: a marker above a line that is no declaration and a marker on
\* the last line, without its terminator, are both rewritten; no error.
FixAllRewritesEveryMarkerWitness ==
    /\ AtReturn /\ fix_all_names
    /\ orig_lines = <<<<WS, JsonNamed(uname), NL>>, <<ImportJsonTok, NL>>,
                      <<WS, JsonNamed(user_name)>>>>
    /\ fr.result_lines = <<<<ImportSerialNameTok, NL>>,
                           <<WS, SerialNameTok(uname), NL>>,
                           <<WS, SerialNameTok(user_name), NL>>>>
    /\ fr.errors = <<>>


\* The named markers that are the last line or stand above a line that is
\* no parsable val declaration.
MarkersWithoutDecl(lines) ==
    {j \in NamedMarkers(lines) : j = Len(lines) \/ ~MatchValDecl(lines[j + 1])}

\* The errors a file must produce outside fix-all mode, from line j on: one
\* per failing marker, in input order.
RECURSIVE ExpectedErrors(_, _, _)
ExpectedErrors(lines, strict, j) ==
    IF j > Len(lines) THEN <<>>
    ELSE (IF j \in MarkersWithoutDecl(lines)
          THEN IF j = Len(lines) THEN <<ErrMissing>> ELSE <<ErrNotVal(lines[j + 1])>>
          ELSE IF strict /\ j \in MismatchPairs(lines)
          THEN <<ErrMismatch(Group2(lines[j + 1]),
                             camel_to_snake(Group2(lines[j + 1])),
                             Group2(lines[j]))>>
          ELSE <<>>)
         \o ExpectedErrors(lines, strict, j + 1)

\* C12: in strict and fix-mismatches modes a named field marker that is the
\* last line, or stands above a line that is no parsable val declaration,
\* records exactly one error and is dropped; the scan goes on with the very
\* next line, which is handled as any line is; every later named marker is
\* still validated, so the errors come in input order, one per failing marker.
MissingDeclarationContinues ==
    /\ [][\A j \in MarkersWithoutDecl(fr.lines) :
              (~fix_all_names /\ Pass1At(j)) =>
                  /\ Len(fr'.errors) = Len(fr.errors) + 1
                  /\ SubSeq(fr'.errors, 1, Len(fr.errors)) = fr.errors
                  /\ Len(fr'.errors) \notin MismatchErrors(fr'.errors)
                  /\ fr'.transformed = fr.transformed
                  /\ fr'.i = fr.i + 1
                  /\ fr'.at = "pass1"]_vars
    /\ []((AtReturn /\ ~fix_all_names) =>
              /\ fr.errors = ExpectedErrors(orig_lines, Strict, 1)
              /\ NamedMarkers(fr.result_lines) = {})

\* Strict mode, a marker above a marker above a declaration: the first has no
\* declaration below it, the second is validated all the same and mismatches;
\* two errors in that order, and the declaration is kept.
MissingDeclarationContinuesWitness ==
    /\ AtReturn /\ Strict
    /\ orig_lines = <<<<WS, JsonNamed(user_name), NL>>, <<WS, JsonNamed(uname), NL>>,
                      <<WS, ValDecl(userName), NL>>>>
    /\ fr.errors = <<ErrNotVal(<<WS, JsonNamed(uname), NL>>),
                     ErrMismatch(userName, user_name, uname)>>
    /\ fr.result_lines = <<<<WS, ValDecl(userName), NL>>>>


\* The lines of transformed that are none of the two Moshi import statements.
IsMoshiImportStatement(l) == Strip(l) \in {<<ImportJsonTok>>, <<ImportJsonClassTok>>}
IsNoMoshiImportStatement(l) == ~IsMoshiImportStatement(l)
Remaining == SelectSeq(fr.transformed, IsNoMoshiImportStatement)

\* The import lines and the package lines of a list, by position.
ImportLines(lines) == {j \in 1..Len(lines) : StartsWithImport(lines[j])}
PackageLines(lines) == {j \in 1..Len(lines) : StartsWithPackage(lines[j])}
ImportAdded == fr.import_serializable_added \/ fr.import_serialname_added

\* C13: when an import is inserted, no import line remains after the Moshi
\* imports are removed and a package line exists, the new import stands right
\* after the package line, or after the one blank line that follows it,
\* wherever the removed imports stood.
ImportAfterPackage ==
    (AtReturn /\ ImportAdded /\ ImportLines(Remaining) = {} /\ PackageLines(Remaining) # {}) =>
        LET p == CHOOSE j \in PackageLines(Remaining) : \A h \in PackageLines(Remaining) : j <= h
            q == IF p < Len(Remaining) /\ Strip(Remaining[p + 1]) = <<>> THEN p + 2 ELSE p + 1
        IN /\ q <= Len(fr.result_lines)
           /\ fr.result_lines[q] \in InsertedImports
           /\ SubSeq(fr.result_lines, 1, q - 1) = SubSeq(Remaining, 1, q - 1)


\* The imports a run inserted, in the order of their insertion.
InsertedBlock ==
    (IF fr.import_serializable_added THEN <<<<ImportSerializableTok, NL>>>> ELSE <<>>)
    \o (IF fr.import_serialname_added THEN <<<<ImportSerialNameTok, NL>>>> ELSE <<>>)

\* C14: when an import is inserted and an import line remains after the Moshi
\* imports are removed, the inserted lines stand right below the last
\* remaining import line and no import line follows them.
ImportAfterLastImport ==
    (AtReturn /\ ImportAdded /\ ImportLines(Remaining) # {}) =>
        LET m == CHOOSE j \in ImportLines(Remaining) : \A h \in ImportLines(Remaining) : h <= j
        IN /\ fr.result_lines = SubSeq(Remaining, 1, m) \o InsertedBlock
                                  \o SubSeq(Remaining, m + 1, Len(Remaining))
           /\ StartsWithImport(fr.result_lines[m])
           /\ \A j \in ImportLines(fr.result_lines) : j <= m + Len(InsertedBlock)

\* An import, a Moshi import and a class marker: the Moshi import goes, the
\* new import follows the remaining import and stands above the new marker.
ImportAfterLastImportWitness ==
    /\ AtReturn
    /\ orig_lines = <<<<ImportOtherTok, NL>>, <<ImportJsonClassTok, NL>>, <<WS, JsonClassTok, NL>>>>
    /\ fr.result_lines = <<<<ImportOtherTok, NL>>, <<ImportSerializableTok, NL>>,
                           <<WS, SerializableTok, NL>>>>

\* C15: when a run inserts both imports, the rename import is on the line
\* directly below the serialization import, whatever the anchor was.
SerialNameImportBelowSerializable ==
    (AtReturn /\ fr.import_serializable_added /\ fr.import_serialname_added) =>
        \E q \in 1..(Len(fr.result_lines) - 1) :
            /\ fr.result_lines[q] = <<ImportSerializableTok, NL>>
            /\ fr.result_lines[q + 1] = <<ImportSerialNameTok, NL>>
            /\ \A j \in 1..Len(fr.result_lines) :
                   fr.result_lines[j] \in InsertedImports => j \in {q, q + 1}

\* Fix-all mode, an import above a class marker and a named marker: both
\* imports are inserted below the import, the rename import second.
SerialNameImportBelowSerializableWitness ==
    /\ AtReturn /\ fix_all_names
    /\ orig_lines = <<<<ImportOtherTok, NL>>, <<WS, JsonClassTok, NL>>, <<WS, JsonNamed(uname), NL>>>>
    /\ fr.result_lines = <<<<ImportOtherTok, NL>>, <<ImportSerializableTok, NL>>,
                           <<ImportSerialNameTok, NL>>, <<WS, SerializableTok, NL>>,
                           <<WS, SerialNameTok(uname), NL>>>>

\* The number of Moshi import statements among lines.
CountMoshiImportStatements(lines) ==
    Cardinality({j \in 1..Len(lines) : IsMoshiImportStatement(lines[j])})

\* C16: the second pass removes the lines that are one of the two Moshi
\* import statements and no other line, and the counter of removed imports
\* is the number of lines it removed.
MoshiImportsRemoved ==
    /\ (pc = "process_lines" /\ fr.at = "insert_serializable") =>
           /\ fr.result_lines = Remaining
           /\ fr.imports_moshi_removed = Len(fr.transformed) - Len(fr.result_lines)
    /\ AtReturn =>
           /\ SelectSeq(fr.result_lines, LAMBDA l : l \notin InsertedImports) = Remaining
           /\ fr.imports_moshi_removed = CountMoshiImportStatements(fr.transformed)
           /\ fr.imports_moshi_removed = CountMoshiImportStatements(orig_lines)

\* Both Moshi imports around another import: the two are removed, the other
\* import stays, the counter is 2.
MoshiImportsRemovedWitness ==
    /\ AtReturn
    /\ orig_lines = <<<<ImportJsonTok, NL>>, <<ImportOtherTok, NL>>, <<ImportJsonClassTok, NL>>>>
    /\ fr.result_lines = <<<<ImportOtherTok, NL>>>>
    /\ fr.imports_moshi_removed = 2


\* A line that is a marker of the kind of `tok`, and a file that has one.
IsMarkerLine(l, tok) == Strip(l) # <<>> /\ Strip(l)[1].k = tok.k
ContainsMarker(lines, tok) == \E j \in 1..Len(lines) : IsMarkerLine(lines[j], tok)

\* C19: each of the two imports is inserted exactly when the output has a
\* marker of its kind, written by the first pass or already in the input,
\* and the input does not have the import; so every output with a marker has
\* the import of that marker.
ImportInsertedWhenNeeded ==
    AtReturn =>
        /\ fr.import_serializable_added <=>
               (ContainsMarker(fr.result_lines, SerializableTok)
                /\ CountImport(orig_lines, ImportSerializableTok) = 0)
        /\ fr.import_serialname_added <=>
               (ContainsMarker(fr.result_lines, SerialNameTok(<<>>))
                /\ CountImport(orig_lines, ImportSerialNameTok) = 0)
        /\ CountImport(fr.result_lines, ImportSerializableTok)
               = CountImport(orig_lines, ImportSerializableTok)
                 + (IF fr.import_serializable_added THEN 1 ELSE 0)
        /\ CountImport(fr.result_lines, ImportSerialNameTok)
               = CountImport(orig_lines, ImportSerialNameTok)
                 + (IF fr.import_serialname_added THEN 1 ELSE 0)
        /\ ContainsMarker(fr.result_lines, SerializableTok)
               => CountImport(fr.result_lines, ImportSerializableTok) > 0
        /\ ContainsMarker(fr.result_lines, SerialNameTok(<<>>))
               => CountImport(fr.result_lines, ImportSerialNameTok) > 0

\* Both markers are in the input already, and so is the rename import: the
\* serialization import is inserted for the marker nobody wrote, the rename
\* import is not inserted again.
ImportInsertedWhenNeededWitness ==
    /\ AtReturn
    /\ orig_lines = <<<<WS, SerializableTok, NL>>, <<ImportSerialNameTok, NL>>,
                      <<WS, SerialNameTok(uname), NL>>>>
    /\ fr.result_lines = <<<<WS, SerializableTok, NL>>, <<ImportSerialNameTok, NL>>,
                           <<ImportSerializableTok, NL>>, <<WS, SerialNameTok(uname), NL>>>>
    /\ fr.import_serializable_added /\ ~fr.import_serialname_added

\* What the named-marker handling does with line j of the frame f, g being
\* the frame after the step.
HandledAsNamed(f, g, j) ==
    LET rewritten == Append(f.transformed,
                            Indent(f.lines[j]) \o <<SerialNameTok(Group2(f.lines[j])), NL>>)
    IN IF f.fix_all_names THEN g.transformed = rewritten /\ g.errors = f.errors
       ELSE IF j \in MarkersWithoutDecl(f.lines)
       THEN g.transformed = f.transformed /\ Len(g.errors) = Len(f.errors) + 1
       ELSE IF j \in MismatchPairs(f.lines)
       THEN IF f.fix_names
            THEN g.transformed = rewritten /\ g.errors = f.errors
            ELSE g.transformed = f.transformed /\ Len(g.errors) = Len(f.errors) + 1
       ELSE g.transformed = f.transformed /\ g.errors = f.errors

\* C20: the first pass classifies first-match-wins in the order class
\* marker, named field marker, bare field marker, plain line; a line that
\* matches the named and the bare pattern is handled as a named marker, never
\* dropped as a bare one; each step applies one branch to one line.
FirstMatchWins ==
    [][\A j \in 1..fr.n :
           Pass1At(j) =>
               /\ fr'.i = fr.i + 1
               /\ IF MatchJsonClass(fr.lines[j])
                  THEN /\ fr'.transformed = Append(fr.transformed,
                              Indent(fr.lines[j]) \o <<SerializableTok, NL>>)
                       /\ fr'.errors = fr.errors
                  ELSE IF MatchJsonWithName(fr.lines[j])
                  THEN HandledAsNamed(fr, fr', j)
                  ELSE IF MatchJson(fr.lines[j])
                  THEN fr'.transformed = fr.transformed /\ fr'.errors = fr.errors
                  ELSE fr'.transformed = Append(fr.transformed, fr.lines[j])
                       /\ fr'.errors = fr.errors]_vars

\* Fix-all mode, a named marker, which the bare pattern matches too, as the
\* only line: one step rewrote it.
FirstMatchWinsWitness ==
    /\ pc = "process_lines" /\ fr.at = "pass1" /\ fr.i = 1 /\ fix_all_names
    /\ fr.lines = <<<<WS, JsonNamed(uname), NL>>>>
    /\ MatchJson(fr.lines[1]) /\ MatchJsonWithName(fr.lines[1])
    /\ fr.transformed = <<<<WS, SerialNameTok(uname), NL>>>>


\* The returns so far that carry errors.
ResultsWithErrors == {k \in 1..Len(results) : results[k].errors # <<>>}

Alone(t) == _process_lines(SplitLines(t), fix_names, fix_all_names)

\* The files written so far.
WrittenFiles == {writes[k] : k \in 1..Len(writes)}

\* C18: the calls of process_file share no state. Whatever the order and
\* the interleaving of the workers, the call for a file returns the lines,
\* the meta values and the errors that the call on that text alone returns,
\* it writes the file exactly if that call does, the file then holds those
\* lines, and a file not written holds the text that was read; no file is
\* written by the call for another file or before its own call returns.
WorkersIndependent ==
    /\ \A k \in 1..Len(results) :
           LET r == results[k]
               a == Alone(r.text)
               w == a.errors = <<>> /\ a.changed /\ write
           IN /\ r = ResultOf(r.path, r.text, a)
              /\ r.path \in WrittenFiles <=> w
              /\ disk[r.path] = (IF w THEN Join(a.result_lines) ELSE r.text)
    /\ \A k, m \in 1..Len(results) : results[k].path = results[m].path => k = m
    /\ \A k, m \in 1..Len(writes) : writes[k] = writes[m] => k = m
    /\ WrittenFiles \subseteq Finished
    /\ \A f \in DOMAIN parked : disk[f] = parked[f].text
    /\ pc = "exit" =>
           /\ Finished = 1..Len(disk)
           /\ exit_status # 0 <=> ResultsWithErrors # {}

\* Fix-mismatches mode, two files: the worker of the first file waits in
\* the middle of its first pass; the worker of the second ran last, and its
\* call has returned, with no errors, and has written the second file.
WorkersIndependentWitness ==
    /\ pc = "main" /\ fix_names /\ write
    /\ DOMAIN parked = {1}
    /\ parked[1].fr.at = "pass1" /\ parked[1].fr.i = 1 /\ parked[1].fr.n = 2
    /\ file_idx = 2
    /\ Len(results) = 1
    /\ results[1].path = 2 /\ results[1].errors = <<>>
    /\ results[1].text = Join(<<<<WS, JsonNamed(uname), NL>>, <<WS, ValDecl(userName), NL>>>>)
    /\ writes = <<2>>
    /\ disk[2] = Join(<<<<ImportSerialNameTok, NL>>, <<WS, SerialNameTok(uname), NL>>,
                        <<WS, ValDecl(userName), NL>>>>)


\* The bare field markers of a file, by position: the lines the field-marker
\* pattern matches and the named pattern does not.
BareMarkers(lines) ==
    {j \in 1..Len(lines) : MatchJson(lines[j]) /\ ~MatchJsonWithName(lines[j])}

\* C21: a bare field marker is dropped in every mode: the step on it adds
\* no line and no error, adds one to the removal counter and asks for no
\* import; a file whose only markers are bare ones gets no import inserted.
BareMarkerDropped ==
    /\ [][\A j \in BareMarkers(fr.lines) :
              Pass1At(j) =>
                  /\ fr'.transformed = fr.transformed
                  /\ fr'.errors = fr.errors
                  /\ fr'.annotations_json_removed = fr.annotations_json_removed + 1
                  /\ fr'.inserted_serializable = fr.inserted_serializable
                  /\ fr'.inserted_serialname = fr.inserted_serialname
                  /\ fr'.i = fr.i + 1]_vars
    /\ [](AtReturn =>
              /\ BareMarkers(fr.result_lines) = {}
              /\ (ClassMarkers(orig_lines) = {} /\ NamedMarkers(orig_lines) = {}) =>
                     /\ ~ImportAdded
                     /\ fr.errors = <<>>
                     /\ fr.annotations_json_removed = Cardinality(BareMarkers(orig_lines)))

\* Strict mode, a declaration between two bare markers: both are dropped,
\* the counter is 2, there is no error and no import.
BareMarkerDroppedWitness ==
    /\ AtReturn /\ Strict
    /\ orig_lines = <<<<WS, JsonBareTok, NL>>, <<WS, ValDecl(userName), NL>>,
                      <<WS, JsonBareTok, NL>>>>
    /\ fr.result_lines = <<<<WS, ValDecl(userName), NL>>>>
    /\ fr.annotations_json_removed = 2
    /\ fr.errors = <<>>
    /\ ~ImportAdded


\* Whether a separator belongs after position p of the name s: between a
\* lowercase letter or digit and an uppercase letter, or between an
\* uppercase letter and an uppercase letter that a lowercase letter follows.
SeparatorAfter(s, p) ==
    /\ p < Len(s)
    /\ \/ (IsLower(s[p]) \/ IsDigit(s[p])) /\ IsUpper(s[p + 1])
       \/ /\ IsUpper(s[p]) /\ IsUpper(s[p + 1])
          /\ p + 2 <= Len(s) /\ IsLower(s[p + 2])

\* The name s from position p on, in lowercase, with the separators.
RECURSIVE Separated(_, _)
Separated(s, p) ==
    IF p > Len(s) THEN <<>>
    ELSE <<ToLower(s[p])>> \o (IF SeparatorAfter(s, p) THEN <<"_">> ELSE <<>>)
             \o Separated(s, p + 1)

\* The run of a file NameFile(nm) in strict mode, at its return.
NameRun ==
    /\ AtReturn /\ Strict
    /\ Len(orig_lines) = 2
    /\ MatchJsonWithName(orig_lines[1]) /\ Group2(orig_lines[1]) = <<"X">>
    /\ MatchValDecl(orig_lines[2])

\* C22: camel_to_snake yields a name for every identifier: the identifier
\* in lowercase with a separator between a lowercase letter or digit and an
\* uppercase letter and at every acronym boundary; userName gives user_name,
\* URLId gives url_id, id gives id; the result has no uppercase letter and
\* camel_to_snake maps it to itself.
SnakeCaseDerived ==
    NameRun =>
        /\ Len(fr.errors) = 1
        /\ LET field_name == Group2(orig_lines[2])
               snake == fr.errors[1].expected_snake
           IN /\ fr.errors[1].field_name = field_name
              /\ snake = Separated(field_name, 1)
              /\ \A p \in 1..Len(snake) : ~IsUpper(snake[p])
              /\ camel_to_snake(snake) = snake
              /\ field_name = userName => snake = user_name
              /\ field_name = URLId => snake = url_id
              /\ field_name = id => snake = id

\* The declaration of URLId: the derived name in the error is url_id.
SnakeCaseDerivedWitness ==
    /\ NameRun
    /\ Group2(orig_lines[2]) = URLId
    /\ fr.errors = <<ErrMismatch(URLId, url_id, <<"X">>)>>


\* A line that is a Moshi class marker, a Moshi field marker, named or
\* bare, or one of the two Moshi import statements.
MoshiKinds ==
    {JsonClassTok.k, JsonBareTok.k, JsonNamed(<<>>).k, ImportJsonTok.k, ImportJsonClassTok.k}
IsMoshiLine(l) == Len(Strip(l)) = 1 /\ Strip(l)[1].k \in MoshiKinds
MoshiLines(lines) == {j \in 1..Len(lines) : IsMoshiLine(lines[j])}

\* C23: in every mode and for every input, with or without errors, no line
\* of the output of _process_lines is a Moshi class marker, a Moshi field
\* marker or a Moshi import; the first pass leaves no marker behind.
NoMoshiLineInOutput ==
    /\ AtReturn => MoshiLines(fr.result_lines) = {}
    /\ (pc = "process_lines" /\ fr.at # "pass1") =>
           /\ ClassMarkers(fr.transformed) = {}
           /\ {j \in 1..Len(fr.transformed) : MatchJson(fr.transformed[j])} = {}

\* Strict mode: a Moshi import, a named marker above a line that is no
\* declaration, and a class marker. There is an error, and the output is the
\* new import and the new marker only.
NoMoshiLineInOutputWitness ==
    /\ AtReturn /\ Strict
    /\ orig_lines = <<<<ImportJsonTok, NL>>, <<WS, JsonNamed(uname), NL>>,
                      <<WS, JsonClassTok, NL>>>>
    /\ MoshiLines(orig_lines) = {1, 2, 3}
    /\ fr.errors = <<ErrNotVal(<<WS, JsonClassTok, NL>>)>>
    /\ fr.result_lines = <<<<ImportSerializableTok, NL>>, <<WS, SerializableTok, NL>>>>


\* C24: changed is never true for nothing: when _process_lines returns
\* changed = true its output differs from its input, as a list of lines and
\* as text, so a file that process_file writes gets a content that differs
\* from the text read.
ChangedOnlyWhenDiffers ==
    /\ (AtReturn /\ fr.changed) =>
           /\ fr.result_lines # orig_lines
           /\ Join(fr.result_lines) # text
    /\ (Returned /\ writes # <<>>) => disk[writes[1]] # text

\* A Moshi import above a declaration without a final terminator: the file
\* was written and holds the declaration only.
ChangedOnlyWhenDiffersWitness ==
    /\ Returned /\ writes = <<1>>
    /\ fr.changed
    /\ text = <<ImportJsonTok, NL, WS, ValDecl(userName)>>
    /\ disk[1] = <<WS, ValDecl(userName)>>

====
